---- MODULE Spec2Model ----
(***************************************************************************)
(* pvdb-metrics: a Prometheus exporter.  rootCmd.Run connects a pgx pool,  *)
(* registers a dbStatsCollector bound to it and serves /metrics.  Every    *)
(* scrape calls Collect, which runs nine counting query functions one      *)
(* after the other and sends one gauge sample per descriptor on the        *)
(* scrape's channel; Describe sends the nine descriptors.                  *)
(***************************************************************************)
EXTENDS Integers, Sequences, FiniteSets, TLC

\* ---------------------------------------------------------------- bounds

\* Collect calls (scrapes) served in one behaviour.
MaxPasses == 2
\* Describe calls made by the registry in one behaviour.
MaxDescribes == 2
\* Failed queries a pool allows among overlapping scrapes (Loads).
MaxFaults == 2

\* The lines of Collect, one query function each.
NQueries == 9

\* Invocation slots of Collect: two scrapes can be in flight at once.
Slots == {1, 2}
\* Log writers: rootCmd.Run (0) and the Collect invocations.
Writers == {0} \cup Slots

\* ------------------------------------------------------ SQL statements

SqlEodYesterday == "SELECT count(*) AS cnt FROM eod WHERE event_date::date = (now() - '1 day'::interval)::date"
SqlEodNoFigi == "SELECT count(*) AS cnt FROM eod WHERE composite_figi=''"
SqlAssetsNew == "SELECT count(*) AS cnt FROM assets WHERE new = True"
SqlAssetsChanged == "SELECT count(*) AS cnt FROM assets WHERE updated = True"
SqlAssetsRetired == "SELECT count(*) AS cnt FROM assets WHERE active = False AND updated = True"
SqlAssetsNoCusip == "SELECT count(*) AS cnt FROM assets WHERE cusip = ''"
SqlSeekingAlphaToday == "SELECT count(*) AS cnt FROM seeking_alpha WHERE event_date::date = now()::date"
SqlZacksToday == "SELECT count(*) AS cnt FROM zacks_financials WHERE event_date::date = now()::date"
\* The count of assets rows with an empty composite FIGI.  No statement of
\* the program asks for it; the database answers it all the same.
SqlAssetsNoFigi == "SELECT count(*) AS cnt FROM assets WHERE composite_figi=''"

Statements ==
  { SqlEodYesterday, SqlEodNoFigi, SqlAssetsNew, SqlAssetsChanged,
    SqlAssetsRetired, SqlAssetsNoCusip, SqlAssetsNoFigi,
    SqlSeekingAlphaToday, SqlZacksToday }

\* ------------------------------------------------------------- database

\* What the database answers to each statement.
FixedCounts ==
  [s \in Statements |->
     CASE s = SqlEodYesterday      -> 42
       [] s = SqlEodNoFigi         -> 3
       [] s = SqlAssetsNew         -> 5
       [] s = SqlAssetsChanged     -> 7
       [] s = SqlAssetsRetired     -> 1
       [] s = SqlAssetsNoCusip     -> 0
       [] s = SqlAssetsNoFigi      -> 2
       [] s = SqlSeekingAlphaToday -> 100
       [] s = SqlZacksToday        -> 88]

QuietCounts ==
  [s \in Statements |->
     CASE s = SqlEodYesterday      -> 9
       [] s = SqlEodNoFigi         -> 0
       [] s = SqlAssetsNew         -> 0
       [] s = SqlAssetsChanged     -> 4
       [] s = SqlAssetsRetired     -> 4
       [] s = SqlAssetsNoCusip     -> 6
       [] s = SqlAssetsNoFigi      -> 0
       [] s = SqlSeekingAlphaToday -> 0
       [] s = SqlZacksToday        -> 11]

Databases == {FixedCounts, QuietCounts}

\* The scrapers, the registry and the pool's health.  Either the scrapes
\* come one at a time, any query may fail and the registry calls Describe up
\* to MaxDescribes times; or two scrapes overlap, the pool fails at most
\* MaxFaults of their queries and the registry calls Describe once.
Loads ==
  { [overlap |-> FALSE, faults |-> NQueries,  describes |-> MaxDescribes],
    [overlap |-> TRUE,  faults |-> MaxFaults, describes |-> 1] }

VARIABLES
  proc,       \* where rootCmd.Run is: start, connected, registered, serving, crashed
  pool,       \* the *pgxpool.Pool Connect returned: "nil" or "live"
  c,          \* the dbStatsCollector, "nil" until NewDbStatsCollector built it
  db,         \* the database's answers
  load,       \* the scrapers and the pool's health (one of Loads)
  status,     \* per Collect invocation: idle, running, done, panicked
  pc,         \* per Collect invocation: lines of Collect executed
  ch,         \* per Collect invocation: the samples sent on its channel
  queries,    \* per Collect invocation: the queries it ran and what they returned
  log,        \* per writer: the error records it wrote
  passes,     \* Collect calls started so far
  nDescribe,  \* Describe calls made so far
  descFirst,  \* what the first Describe call sent, and the Collect calls started before it
  descLast    \* what the latest Describe call sent, and the Collect calls started before it

vars ==
  << proc, pool, c, db, load, status, pc, ch, queries, log, passes,
     nDescribe, descFirst, descLast >>

\* ------------------------------------------------------------ descriptors

fqName(ns, subsystem, name) == ns \o "_" \o subsystem \o "_" \o name

\* prometheus.NewDesc with no variable and no constant labels.
NewDesc(name, help) == [fqName |-> name, help |-> help]

NewDbStatsCollector(p) ==
  [ pool |-> p,
    eodDaily |-> NewDesc(fqName("pvdb", "eod", "daily"),
                         "Number of EOD quotes downloaded today"),
    eodNoFigi |-> NewDesc(fqName("pvdb", "eod", "no_figi"),
                          "Number of EOD quotes downloaded today"),
    assetsNew |-> NewDesc(fqName("pvdb", "assets", "new"),
                          "Number of new assets in the last 24 hours"),
    assetsChanged |-> NewDesc(fqName("pvdb", "assets", "changed"),
                              "Number of changed assets in the last 24 hours"),
    assetsRetired |-> NewDesc(fqName("pvdb", "assets", "retired"),
                              "Number of retired assets in the last 24 hours"),
    assetsNoCusip |-> NewDesc(fqName("pvdb", "assets", "no_cusip"),
                              "Number of assets with no CUSIP"),
    assetsNoFigi |-> NewDesc(fqName("pvdb", "assets", "no_figi"),
                             "Number of assets with no Composite FIGI"),
    seekingAlphaDaily |-> NewDesc(fqName("pvdb", "seeking_alpha", "daily"),
                                  "Number of Seeking Alpha ratings in last 24 hours"),
    zacksFinancialDaily |-> NewDesc(fqName("pvdb", "zacks_finance", "daily"),
                                    "Number of Zacks Finance records in last 24 hours") ]

\* ---------------------------------------------------------------- queries

\* float64(cnt): exact for the counts of Databases (all below 2^53).
Float64(cnt) == cnt

\* conn.QueryRow(ctx, sql).Scan(&cnt) on a live pool: an error, cnt left at
\* its zero value, or the count the database answers.
QueryRow(sql, ok) ==
  IF ok THEN [err |-> FALSE, cnt |-> db[sql]] ELSE [err |-> TRUE, cnt |-> 0]

\* QueryFn with a sentinel in place of the neutral value on an error.
QueryFnSentinel(fn, sql, msg, ok) ==
  LET row == QueryRow(sql, ok)
  IN  IF row.err
        THEN [fn |-> fn, sql |-> sql, ok |-> FALSE, cnt |-> row.cnt,
              ret |-> -1, log |-> <<msg>>]
        ELSE [fn |-> fn, sql |-> sql, ok |-> TRUE, cnt |-> row.cnt,
              ret |-> Float64(row.cnt), log |-> <<>>]

\* QueryFn with the log call outside the error branch.
QueryFnAlwaysLogs(fn, sql, msg, ok) ==
  LET row == QueryRow(sql, ok)
  IN  IF row.err
        THEN [fn |-> fn, sql |-> sql, ok |-> FALSE, cnt |-> row.cnt,
              ret |-> 0, log |-> <<msg>>]
        ELSE [fn |-> fn, sql |-> sql, ok |-> TRUE, cnt |-> row.cnt,
              ret |-> Float64(row.cnt), log |-> <<msg>>]

\* The body the nine query functions share: on an error one log record and
\* 0, else the count as a float64.
QueryFn(fn, sql, msg, ok) ==
  LET row == QueryRow(sql, ok)
  IN  IF row.err
        THEN [fn |-> fn, sql |-> sql, ok |-> FALSE, cnt |-> row.cnt,
              ret |-> 0, log |-> <<msg>>]
        ELSE [fn |-> fn, sql |-> sql, ok |-> TRUE, cnt |-> row.cnt,
              ret |-> Float64(row.cnt), log |-> <<>>]

EodDaily(ok) ==
  QueryFn("EodDaily", SqlEodYesterday, "failed to retrieve eod daily count", ok)
EodNoFigi(ok) ==
  QueryFn("EodNoFigi", SqlEodNoFigi, "failed to retrieve eod w/ no figi", ok)
AssetsNew(ok) ==
  QueryFn("AssetsNew", SqlAssetsNew, "failed to retrieve num new assets", ok)
AssetsChanged(ok) ==
  QueryFn("AssetsChanged", SqlAssetsChanged, "failed to retrieve num assets changed", ok)
AssetsRetired(ok) ==
  QueryFn("AssetsRetired", SqlAssetsRetired, "failed to retrieve num assets retired", ok)
AssetsNoCUSIP(ok) ==
  QueryFn("AssetsNoCUSIP", SqlAssetsNoCusip, "failed to retrieve assets w/ no cusip", ok)
AssetsNoFigi(ok) ==
  QueryFn("AssetsNoFigi", SqlEodYesterday, "failed to retrieve assets w/ no figi", ok)
SeekingAlphaDaily(ok) ==
  QueryFn("SeekingAlphaDaily", SqlSeekingAlphaToday, "failed to retrieve seeking alpha daily count", ok)
ZacksFinanceDaily(ok) ==
  QueryFn("ZacksFinanceDaily", SqlZacksToday, "failed to retrieve zacks finance daily count", ok)

\* -------------------------------------------------------------- collector

\* prometheus.MustNewConstMetric(desc, GaugeValue, value): the descriptors
\* carry no labels, so it never panics.
MustNewConstMetric(desc, value) == [desc |-> desc, value |-> value]

\* What Describe sends, in order.
DescribeSeq(col) ==
  << col.eodDaily, col.eodNoFigi,
     col.assetsNew, col.assetsChanged, col.assetsRetired,
     col.assetsNoCusip, col.assetsNoFigi,
     col.seekingAlphaDaily, col.zacksFinancialDaily >>

\* CollectLine with line 7 carrying line 2's descriptor.
CollectLineDupDesc(col, i, ok) ==
  CASE i = 1 -> [desc |-> col.eodDaily,            res |-> EodDaily(ok)]
    [] i = 2 -> [desc |-> col.eodNoFigi,           res |-> EodNoFigi(ok)]
    [] i = 3 -> [desc |-> col.assetsNew,           res |-> AssetsNew(ok)]
    [] i = 4 -> [desc |-> col.assetsChanged,       res |-> AssetsChanged(ok)]
    [] i = 5 -> [desc |-> col.assetsRetired,       res |-> AssetsRetired(ok)]
    [] i = 6 -> [desc |-> col.assetsNoCusip,       res |-> AssetsNoCUSIP(ok)]
    [] i = 7 -> [desc |-> col.eodNoFigi,           res |-> AssetsNoFigi(ok)]
    [] i = 8 -> [desc |-> col.seekingAlphaDaily,   res |-> SeekingAlphaDaily(ok)]
    [] i = 9 -> [desc |-> col.zacksFinancialDaily, res |-> ZacksFinanceDaily(ok)]

\* CollectLine with lines 8 and 9 exchanged.
CollectLineSwapped(col, i, ok) ==
  CASE i = 1 -> [desc |-> col.eodDaily,            res |-> EodDaily(ok)]
    [] i = 2 -> [desc |-> col.eodNoFigi,           res |-> EodNoFigi(ok)]
    [] i = 3 -> [desc |-> col.assetsNew,           res |-> AssetsNew(ok)]
    [] i = 4 -> [desc |-> col.assetsChanged,       res |-> AssetsChanged(ok)]
    [] i = 5 -> [desc |-> col.assetsRetired,       res |-> AssetsRetired(ok)]
    [] i = 6 -> [desc |-> col.assetsNoCusip,       res |-> AssetsNoCUSIP(ok)]
    [] i = 7 -> [desc |-> col.assetsNoFigi,        res |-> AssetsNoFigi(ok)]
    [] i = 8 -> [desc |-> col.zacksFinancialDaily, res |-> ZacksFinanceDaily(ok)]
    [] i = 9 -> [desc |-> col.seekingAlphaDaily,   res |-> SeekingAlphaDaily(ok)]

\* Line i of Collect: the descriptor it uses and the query function it calls.
CollectLine(col, i, ok) ==
  CASE i = 1 -> [desc |-> col.eodDaily,            res |-> EodDaily(ok)]
    [] i = 2 -> [desc |-> col.eodNoFigi,           res |-> EodNoFigi(ok)]
    [] i = 3 -> [desc |-> col.assetsNew,           res |-> AssetsNew(ok)]
    [] i = 4 -> [desc |-> col.assetsChanged,       res |-> AssetsChanged(ok)]
    [] i = 5 -> [desc |-> col.assetsRetired,       res |-> AssetsRetired(ok)]
    [] i = 6 -> [desc |-> col.assetsNoCusip,       res |-> AssetsNoCUSIP(ok)]
    [] i = 7 -> [desc |-> col.assetsNoFigi,        res |-> AssetsNoFigi(ok)]
    [] i = 8 -> [desc |-> col.seekingAlphaDaily,   res |-> SeekingAlphaDaily(ok)]
    [] i = 9 -> [desc |-> col.zacksFinancialDaily, res |-> ZacksFinanceDaily(ok)]

\* The record kept of a query a Collect invocation ran.
QueryRecord(res) == [fn |-> res.fn, sql |-> res.sql, ok |-> res.ok, cnt |-> res.cnt]

\* Failed queries among the invocations in the state.
Failed(k) == {i \in 1..Len(queries[k]) : ~queries[k][i].ok}
FailCount == Cardinality(Failed(1)) + Cardinality(Failed(2))

\* -------------------------------------------------------------- actions

Init ==
  /\ proc = "start"
  /\ pool = "nil"
  /\ c = "nil"
  /\ db \in Databases
  /\ load \in Loads
  /\ status = [k \in Slots |-> "idle"]
  /\ pc = [k \in Slots |-> 0]
  /\ ch = [k \in Slots |-> <<>>]
  /\ queries = [k \in Slots |-> <<>>]
  /\ log = [w \in Writers |-> <<>>]
  /\ passes = 0
  /\ nDescribe = 0
  /\ descFirst = [out |-> <<>>, passes |-> 0]
  /\ descLast = [out |-> <<>>, passes |-> 0]

\* pgxpool.Connect: the pool, or nil and an error, which Run logs and
\* then carries on.
Connect ==
  /\ proc = "start"
  /\ \E ok \in BOOLEAN :
       /\ pool' = IF ok THEN "live" ELSE "nil"
       /\ log' = IF ok THEN log
                 ELSE [log EXCEPT ![0] = Append(@, "failed to connect to database via pgxpool")]
  /\ proc' = "connected"
  /\ UNCHANGED << c, db, load, status, pc, ch, queries, passes,
                  nDescribe, descFirst, descLast >>

\* reg.MustRegister(metrics.NewDbStatsCollector(pool))
Register ==
  /\ proc = "connected"
  /\ c' = NewDbStatsCollector(pool)
  /\ proc' = "registered"
  /\ UNCHANGED << pool, db, load, status, pc, ch, queries, log, passes,
                  nDescribe, descFirst, descLast >>

\* http.Handle and http.ListenAndServe
ListenAndServe ==
  /\ proc = "registered"
  /\ proc' = "serving"
  /\ UNCHANGED << pool, c, db, load, status, pc, ch, queries, log, passes,
                  nDescribe, descFirst, descLast >>

\* Describe over a sequence that is consumed by the first call.
DescribeOnce ==
  /\ proc \in {"registered", "serving"}
  /\ nDescribe < load.describes
  /\ nDescribe' = nDescribe + 1
  /\ descLast' = [out |-> IF nDescribe = 0 THEN DescribeSeq(c) ELSE <<>>,
                  passes |-> passes]
  /\ descFirst' = IF nDescribe = 0 THEN [out |-> DescribeSeq(c), passes |-> passes]
                                   ELSE descFirst
  /\ UNCHANGED << proc, pool, c, db, load, status, pc, ch, queries, log, passes >>

\* Describe that evaluates the first query function to probe the pool.
DescribeQuerying ==
  /\ proc \in {"registered", "serving"}
  /\ nDescribe < load.describes
  /\ nDescribe' = nDescribe + 1
  /\ descLast' = [out |-> DescribeSeq(c), passes |-> passes]
  /\ descFirst' = IF nDescribe = 0 THEN [out |-> DescribeSeq(c), passes |-> passes]
                                   ELSE descFirst
  /\ queries' = [queries EXCEPT ![1] = Append(@, QueryRecord(EodDaily(TRUE)))]
  /\ UNCHANGED << proc, pool, c, db, load, status, pc, ch, log, passes >>

\* Describe, called by the registry on the registered collector.
Describe ==
  /\ proc \in {"registered", "serving"}
  /\ nDescribe < load.describes
  /\ nDescribe' = nDescribe + 1
  /\ descLast' = [out |-> DescribeSeq(c), passes |-> passes]
  /\ descFirst' = IF nDescribe = 0 THEN [out |-> DescribeSeq(c), passes |-> passes]
                                   ELSE descFirst
  /\ UNCHANGED << proc, pool, c, db, load, status, pc, ch, queries, log, passes >>

\* A scrape arrives: the registry calls Collect with a fresh channel.  The
\* scrapes that come one at a time all run as invocation 1; of two overlapping
\* scrapes the first runs as invocation 1 and the second as invocation 2.
StartCollect(k) ==
  /\ proc = "serving"
  /\ passes < MaxPasses
  /\ IF load.overlap
       THEN status[k] = "idle" /\ (k = 1 \/ status[1] # "idle")
       ELSE k = 1 /\ \A j \in Slots : status[j] # "running"
  /\ passes' = passes + 1
  /\ status' = [status EXCEPT ![k] = "running"]
  /\ pc' = [pc EXCEPT ![k] = 0]
  /\ ch' = [ch EXCEPT ![k] = <<>>]
  /\ queries' = [queries EXCEPT ![k] = <<>>]
  /\ log' = [log EXCEPT ![k] = <<>>]
  /\ UNCHANGED << proc, pool, c, db, load, nDescribe, descFirst, descLast >>

\* CollectStep that returns from Collect at the first failed query.
CollectStepAbort(k) ==
  /\ proc = "serving"
  /\ status[k] = "running"
  /\ c.pool = "live"
  /\ \E ok \in BOOLEAN :
       /\ ok \/ FailCount < load.faults
       /\ LET i  == pc[k] + 1
              ln == CollectLine(c, i, ok)
          IN  /\ queries' = [queries EXCEPT ![k] = Append(@, QueryRecord(ln.res))]
              /\ log' = [log EXCEPT ![k] = @ \o ln.res.log]
              /\ ch' = IF ok THEN [ch EXCEPT ![k] = Append(@, MustNewConstMetric(ln.desc, ln.res.ret))]
                             ELSE ch
              /\ pc' = [pc EXCEPT ![k] = i]
              /\ status' = [status EXCEPT ![k] = IF i = NQueries \/ ~ok THEN "done" ELSE "running"]
  /\ UNCHANGED << proc, pool, c, db, load, passes, nDescribe, descFirst, descLast >>

\* CollectStep that keeps the count in a field of the collector shared by the
\* invocations: the sample carries what the latest query of any invocation
\* returned.
CollectStepShared(k) ==
  /\ proc = "serving"
  /\ status[k] = "running"
  /\ c.pool = "live"
  /\ \E ok \in BOOLEAN :
       /\ ok \/ FailCount < load.faults
       /\ LET i  == pc[k] + 1
              ln == CollectLine(c, i, ok)
              j  == CHOOSE s \in Slots : s # k
              shared == IF Len(ch[j]) > 0 /\ status[j] = "running"
                          THEN ch[j][Len(ch[j])].value ELSE ln.res.ret
          IN  /\ queries' = [queries EXCEPT ![k] = Append(@, QueryRecord(ln.res))]
              /\ log' = [log EXCEPT ![k] = @ \o ln.res.log]
              /\ ch' = [ch EXCEPT ![k] = Append(@, MustNewConstMetric(ln.desc, shared))]
              /\ pc' = [pc EXCEPT ![k] = i]
              /\ status' = [status EXCEPT ![k] = IF i = NQueries THEN "done" ELSE "running"]
  /\ UNCHANGED << proc, pool, c, db, load, passes, nDescribe, descFirst, descLast >>

\* The next line of Collect on a live pool: the query function runs, then
\* the sample is sent.
CollectStep(k) ==
  /\ proc = "serving"
  /\ status[k] = "running"
  /\ c.pool = "live"
  /\ \E ok \in BOOLEAN :
       /\ ok \/ FailCount < load.faults
       /\ LET i  == pc[k] + 1
              ln == CollectLine(c, i, ok)
          IN  /\ queries' = [queries EXCEPT ![k] = Append(@, QueryRecord(ln.res))]
              /\ log' = [log EXCEPT ![k] = @ \o ln.res.log]
              /\ ch' = [ch EXCEPT ![k] = Append(@, MustNewConstMetric(ln.desc, ln.res.ret))]
              /\ pc' = [pc EXCEPT ![k] = i]
              /\ status' = [status EXCEPT ![k] = IF i = NQueries THEN "done" ELSE "running"]
  /\ UNCHANGED << proc, pool, c, db, load, passes, nDescribe, descFirst, descLast >>

\* The first line of Collect on a nil pool: conn.QueryRow dereferences the
\* nil *pgxpool.Pool and panics.  Nothing in Collect recovers; whether the
\* process outlives the panic is up to the caller of Collect.
CollectPanic(k) ==
  /\ proc = "serving"
  /\ status[k] = "running"
  /\ c.pool = "nil"
  /\ status' = [status EXCEPT ![k] = "panicked"]
  /\ proc' \in {"serving", "crashed"}
  /\ UNCHANGED << pool, c, db, load, pc, ch, queries, log, passes,
                  nDescribe, descFirst, descLast >>

Next ==
  \/ Connect
  \/ Register
  \/ ListenAndServe
  \/ Describe
  \/ \E k \in Slots : StartCollect(k)
  \/ \E k \in Slots : CollectStep(k)
  \/ \E k \in Slots : CollectPanic(k)

Spec == Init /\ [][Next]_vars

\* ---------------------------------------------------------------- claims

Range(s) == {s[i] : i \in 1..Len(s)}

\* The descriptors a Collect invocation has sent samples for, in order.
SentDescs(k) == [i \in 1..Len(ch[k]) |-> ch[k][i].desc]

\* The query functions a Collect invocation has called, in order.
CalledFns(k) == [i \in 1..Len(queries[k]) |-> queries[k][i].fn]

Prefix(s, n) == [i \in 1..n |-> s[i]]

\* The catalogue in its declaration order: the fully qualified name of each
\* metric and the statement that counts what the metric means.
Catalogue ==
  << [name |-> "pvdb_eod_daily",           sql |-> SqlEodYesterday],
     [name |-> "pvdb_eod_no_figi",         sql |-> SqlEodNoFigi],
     [name |-> "pvdb_assets_new",          sql |-> SqlAssetsNew],
     [name |-> "pvdb_assets_changed",      sql |-> SqlAssetsChanged],
     [name |-> "pvdb_assets_retired",      sql |-> SqlAssetsRetired],
     [name |-> "pvdb_assets_no_cusip",     sql |-> SqlAssetsNoCusip],
     [name |-> "pvdb_assets_no_figi",      sql |-> SqlAssetsNoFigi],
     [name |-> "pvdb_seeking_alpha_daily", sql |-> SqlSeekingAlphaToday],
     [name |-> "pvdb_zacks_finance_daily", sql |-> SqlZacksToday] >>

CatalogueNames == [i \in 1..Len(Catalogue) |-> Catalogue[i].name]

\* The query functions in the order of the catalogue.
FnOrder ==
  << "EodDaily", "EodNoFigi", "AssetsNew", "AssetsChanged", "AssetsRetired",
     "AssetsNoCUSIP", "AssetsNoFigi", "SeekingAlphaDaily", "ZacksFinanceDaily" >>

C2_EachCountOnItsOwnDescriptor ==
  \A k \in Slots :
    (status[k] = "done" /\ Failed(k) = {}) =>
      \A i \in 1..Len(Catalogue) :
        \E j \in 1..Len(ch[k]) :
          /\ ch[k][j].desc.fqName = Catalogue[i].name
          /\ ch[k][j].value = db[Catalogue[i].sql]

\* C3: a query that returned an error puts exactly 0 on its sample and the
\* Collect call goes on: the invocation is still running or has returned,
\* never panicked, and it has returned once the ninth line is done.
C3_FailedQueryYieldsZero ==
  \A k \in Slots :
    /\ \A i \in Failed(k) :
         /\ i <= Len(ch[k])
         /\ ch[k][i].value = 0
         /\ status[k] \in {"running", "done"}
    /\ (Failed(k) # {} /\ pc[k] = NQueries) => status[k] = "done"

\* A finished pass with a failed query whose count in the database is not 0.
C3_Witness ==
  \E k \in Slots :
    /\ status[k] = "done"
    /\ \E i \in Failed(k) : db[queries[k][i].sql] # 0 /\ ch[k][i].value = 0

\* C4: a failed query leaves the other samples of its pass alone: every
\* line executed has sent its sample, a sample whose query succeeded carries
\* the count that query returned, and a pass ends only after all nine lines.
C4_OtherSamplesUnaffected ==
  \A k \in Slots :
    /\ status[k] \in {"running", "done"} =>
         /\ Len(ch[k]) = pc[k]
         /\ Len(queries[k]) = pc[k]
         /\ \A i \in 1..Len(ch[k]) :
              queries[k][i].ok =>
                /\ queries[k][i].cnt = db[queries[k][i].sql]
                /\ ch[k][i].value = queries[k][i].cnt
    /\ status[k] = "done" => pc[k] = NQueries
    /\ status[k] = "running" => pc[k] < NQueries

\* A finished pass in which only the fifth query failed; the other eight
\* samples are there with the counts of the database.
C4_Witness ==
  \E k \in Slots :
    /\ status[k] = "done"
    /\ Failed(k) = {5}
    /\ Len(ch[k]) = 9
    /\ db = FixedCounts
    /\ ch[k][4].value = 7
    /\ ch[k][6].value = 0
    /\ ch[k][9].value = 88

\* C5: overlapping Collect calls do not interfere: the samples on the
\* channel of each invocation are, line for line, the declared descriptor
\* with the result of that invocation's own query (its count, or 0 when it
\* failed), and each invocation that has returned sent all nine.
C5_OverlappingCollectsIndependent ==
  \A k \in Slots :
    status[k] \in {"running", "done"} =>
      /\ ch[k] = [i \in 1..Len(queries[k]) |->
                    [desc |-> DescribeSeq(c)[i],
                     value |-> IF queries[k][i].ok THEN queries[k][i].cnt ELSE 0]]
      /\ status[k] = "done" => Len(ch[k]) = NQueries

\* Two Collect calls in flight at once, both past their second line, whose
\* queries fared differently.
C5_Witness ==
  /\ load.overlap
  /\ status[1] = "running"
  /\ status[2] = "running"
  /\ pc[1] >= 2
  /\ pc[2] >= 2
  /\ Failed(1) # {}
  /\ Failed(2) = {}
  /\ ch[1] # Prefix(ch[2], Len(ch[1]))

\* C6: the failure records a pass has written are as many as its failed
\* queries, one for each.
C6_OneLogRecordPerFailedQuery ==
  \A k \in Slots : Len(log[k]) = Cardinality(Failed(k))

\* A finished pass with exactly one failed query: nine samples, that one at
\* 0, one failure record.
C6_Witness ==
  \E k \in Slots :
    /\ status[k] = "done"
    /\ Cardinality(Failed(k)) = 1
    /\ Len(ch[k]) = 9
    /\ \A i \in Failed(k) : ch[k][i].value = 0
    /\ Len(log[k]) = 1

\* C7: every Describe call sends the sequence the first one sent, nine
\* descriptors long, whatever Collect calls came before or between.
C7_DescribeIdempotent ==
  nDescribe >= 1 =>
    /\ descLast.out = descFirst.out
    /\ Len(descLast.out) = 9

\* A second Describe call, made after a Collect call that came after the first.
C7_Witness ==
  /\ nDescribe >= 2
  /\ descFirst.passes = 0
  /\ descLast.passes >= 1
  /\ \E k \in Slots : status[k] = "done"

\* C8: a Describe call leaves the queries issued to the pool, the database
\* and the log as they were, and sends all nine descriptors.
C8_DescribeIssuesNoQuery ==
  [][nDescribe' # nDescribe =>
       /\ queries' = queries
       /\ db' = db
       /\ log' = log
       /\ Len(descLast'.out) = 9]_vars

\* Describe has sent nine descriptors on a collector whose pool is nil.
C8_Witness ==
  /\ nDescribe >= 1
  /\ Len(descLast.out) = 9
  /\ c.pool = "nil"

\* C9: after a failed connect the process serves on, and every collection
\* pass runs to its end with its queries failing.
C9_FailedConnectServesZeros ==
  log[0] # <<>> =>
    /\ proc # "crashed"
    /\ \A k \in Slots :
         /\ status[k] # "panicked"
         /\ status[k] = "done" => Failed(k) = 1..NQueries

\* C10: a Collect call runs the nine query functions one at a time, each
\* once, and sends the samples in the order of the catalogue, which is the
\* order in which Describe sends the descriptors, in every pass.
C10_DeclarationOrder ==
  /\ proc \notin {"start", "connected"} =>
       [i \in 1..9 |-> DescribeSeq(c)[i].fqName] = CatalogueNames
  /\ \A k \in Slots :
       status[k] \in {"running", "done"} =>
         /\ Len(queries[k]) = pc[k]
         /\ Len(ch[k]) = pc[k]
         /\ CalledFns(k) = Prefix(FnOrder, pc[k])
         /\ SentDescs(k) = Prefix(DescribeSeq(c), pc[k])
         /\ nDescribe >= 1 => SentDescs(k) = Prefix(descLast.out, pc[k])
         /\ status[k] = "done" => pc[k] = NQueries

\* The second pass of the process, finished with failed queries, after a
\* Describe call.
C10_Witness ==
  /\ passes >= 2
  /\ nDescribe >= 1
  /\ ~load.overlap
  /\ status[1] = "done"
  /\ Failed(1) # {}
  /\ Len(ch[1]) = 9

====
